---- MODULE Spec2Model ----
(***************************************************************************)
(* IntervalAVLMap<int, V>: an AVL tree keyed by an interval's low endpoint *)
(* and augmented with the maximum high endpoint of each subtree.           *)
(*                                                                         *)
(* A tree is a nested record: an owning pointer (std::unique_ptr<Node>) is *)
(* either NULL or the node it owns, so that exclusive ownership is the     *)
(* nesting itself.  Every node carries, besides the fields of struct Node, *)
(*   live : FALSE once the node's storage has been released while some     *)
(*          owning pointer of the tree still holds its address;            *)
(*   id   : the node's address.  Addresses matter only inside Delete,      *)
(*          where the local copy `min` keeps raw addresses of the          *)
(*          successor's children; Delete numbers the nodes when it starts  *)
(*          and the number is dropped (0) when it returns.                 *)
(***************************************************************************)
EXTENDS Integers, FiniteSets, Sequences, TLC

\* ---------------------------------------------------------------- bounds
\* Low endpoints and high endpoints range over -NegKeys .. MaxKey.
NegKeys == 3
MaxKey == 0
\* Payload values are 1 .. MaxVal.
MaxVal == 2
\* Insert of a fresh low endpoint is explored only below this many nodes.
MaxNodes == 4
\* Words that released storage may be found to hold: -1 .. MaxGarbage.
MaxGarbage == 2
\* Balance is applied to nodes whose subtrees are at most this high.
MaxSubtreeHeight == 2
\* Inserts with non-negative endpoints draw them from 0 .. MaxNonNeg.
MaxNonNeg == 4

Keys == (0 - NegKeys) .. MaxKey
Vals == 1 .. MaxVal
Garbage == (0 - 1) .. MaxGarbage
NonNegKeys == 0 .. MaxNonNeg

\* ------------------------------------------------------------- the nodes
NULL == [null |-> TRUE]

Max2(a, b) == IF a >= b THEN a ELSE b

Abs(x) == IF x < 0 THEN 0 - x ELSE x

\* Node(const Key&, const TValue&): a leaf, height 0, max = key.hi.
NewNode(lo, hi, value) ==
    [lo |-> lo, hi |-> hi, value |-> value, max |-> hi, height |-> 0,
     left |-> NULL, right |-> NULL, live |-> TRUE, id |-> 0]

GetHeight(node) == IF node = NULL THEN 0 - 1 ELSE node.height

\* CalcHeight with an absent child counted as 0.
CalcHeightAbsentZero(node) ==
    IF node = NULL THEN 0 - 1
    ELSE 1 + Max2(IF node.left = NULL THEN 0 ELSE node.left.height,
                  IF node.right = NULL THEN 0 ELSE node.right.height)

\* CalcHeight reads the children's stored heights; an absent child is -1.
CalcHeight(node) ==
    IF node = NULL THEN 0 - 1
    ELSE 1 + Max2(IF node.left = NULL THEN 0 - 1 ELSE node.left.height,
                  IF node.right = NULL THEN 0 - 1 ELSE node.right.height)

GetBalance(node) == GetHeight(node.left) - GetHeight(node.right)

\* CalcMax: an absent child counts as -1 (not as minus infinity).
CalcMax(node) ==
    IF node = NULL THEN NULL
    ELSE LET leftMax == IF node.left = NULL THEN 0 - 1 ELSE node.left.max
             rightMax == IF node.right = NULL THEN 0 - 1 ELSE node.right.max
         IN [node EXCEPT !.max = Max2(node.hi, Max2(leftMax, rightMax))]

\* RightRotation(node): the left child is promoted; max is recomputed for
\* the demoted node, then for the promoted one.  Heights are not touched.
RightRotation(node) ==
    LET temp == node
        promoted == temp.left
        temp2 == CalcMax([temp EXCEPT !.left = promoted.right])
    IN CalcMax([promoted EXCEPT !.right = temp2])

LeftRotation(node) ==
    LET temp == node
        promoted == temp.right
        temp2 == CalcMax([temp EXCEPT !.right = promoted.left])
    IN CalcMax([promoted EXCEPT !.left = temp2])

\* The three height assignments that follow a rotation in Balance: the new
\* root first (from its children's still stale heights), then its children.
RefreshHeights(node) ==
    LET n1 == [node EXCEPT !.height = CalcHeight(node)]
        n2 == IF n1.left # NULL
              THEN [n1 EXCEPT !.left.height = CalcHeight(n1.left)] ELSE n1
    IN IF n2.right # NULL
       THEN [n2 EXCEPT !.right.height = CalcHeight(n2.right)] ELSE n2

\* Balance with the single rotation in every case.
BalanceSingleRotation(node) ==
    LET balance == GetBalance(node)
    IN IF balance < 0 - 1 THEN RefreshHeights(LeftRotation(node))
       ELSE IF balance > 1 THEN RefreshHeights(RightRotation(node))
       ELSE node

\* Balance(unique_ptr<Node>&): the case table on the balance factors.
Balance(node) ==
    LET balance == GetBalance(node)
    IN IF balance < 0 - 1
       THEN LET subbalance == GetBalance(node.right)
                n1 == IF subbalance >= 1
                      THEN [node EXCEPT !.right = RightRotation(node.right)]
                      ELSE node
            IN RefreshHeights(LeftRotation(n1))
       ELSE IF balance > 1
       THEN LET subbalance == GetBalance(node.left)
                n1 == IF subbalance <= 0 - 1
                      THEN [node EXCEPT !.left = LeftRotation(node.left)]
                      ELSE node
            IN RefreshHeights(RightRotation(n1))
       ELSE node

\* The tail of the recursive Insert without its CalcMax.
InsertFixupKeepMax(node) ==
    LET b == Balance(node)
    IN [b EXCEPT !.height = CalcHeight(b)]

\* The tail of the recursive Insert: Balance, height, CalcMax.
InsertFixup(node) ==
    LET b == Balance(node)
    IN CalcMax([b EXCEPT !.height = CalcHeight(b)])

\* The recursive Insert with an equal-lo branch that returns the node as found.
RECURSIVE InsertRecKeepValue(_, _, _, _)
InsertRecKeepValue(lo, hi, value, node) ==
    IF node = NULL THEN NewNode(lo, hi, value)
    ELSE IF lo < node.lo
    THEN InsertFixup([node EXCEPT !.left = InsertRecKeepValue(lo, hi, value, node.left)])
    ELSE IF lo > node.lo
    THEN InsertFixup([node EXCEPT !.right = InsertRecKeepValue(lo, hi, value, node.right)])
    ELSE node

\* Insert(Key&, TValue&, unique_ptr<Node>&): the subtree the slot owns after
\* the call.  An equal low endpoint replaces the value only.
RECURSIVE InsertRec(_, _, _, _)
InsertRec(lo, hi, value, node) ==
    IF node = NULL THEN NewNode(lo, hi, value)
    ELSE IF lo < node.lo
    THEN InsertFixup([node EXCEPT !.left = InsertRec(lo, hi, value, node.left)])
    ELSE IF lo > node.lo
    THEN InsertFixup([node EXCEPT !.right = InsertRec(lo, hi, value, node.right)])
    ELSE [node EXCEPT !.value = value]

\* --------------------------------------------------------- observations
RECURSIVE Nodes(_)
\* Every node an owning pointer of the tree leads to.
Nodes(t) == IF t = NULL THEN {} ELSE {t} \cup Nodes(t.left) \cup Nodes(t.right)

RECURSIVE Size(_)
Size(t) == IF t = NULL THEN 0 ELSE 1 + Size(t.left) + Size(t.right)

\* ------------------------------------------------------------------ Find
\* Find(lo, hi, node) returns node.get() when the node is absent or its
\* interval overlaps the query.  The two recursive branches have no return
\* statement: the caller receives an indeterminate pointer, here either the
\* callee's result (the return register is passed through) or this frame's
\* own node (the branch is treated as unreachable and the test as true).
FallOff(calleeResults, node) == calleeResults \cup {node}

RECURSIVE FindRec(_, _, _)
FindRec(lo, hi, node) ==
    IF node = NULL \/ (hi > node.lo /\ lo < node.hi)
    THEN {node}
    ELSE IF node.left = NULL \/ node.left.max < lo
    THEN FallOff(FindRec(lo, hi, node.right), node)
    ELSE FallOff(FindRec(lo, hi, node.left), node)

\* Find(lo, hi): the set of pointers the call can return.
FindPublic(lo, hi, root) == IF root = NULL THEN {NULL} ELSE FindRec(lo, hi, root)

\* FindMinimum(node): the leftmost node, or, its recursive branch having no
\* return statement either, the node the branch fell off at.
RECURSIVE FindMinimum(_)
FindMinimum(node) ==
    IF node.left = NULL THEN {node}
    ELSE FallOff(FindMinimum(node.left), node)

\* Where the descent of Find(lo, hi, node) stops: at an absent node or at the
\* first node on the path whose interval overlaps the query.
RECURSIVE FindStop(_, _, _)
FindStop(lo, hi, node) ==
    IF node = NULL \/ (hi > node.lo /\ lo < node.hi) THEN node
    ELSE IF node.left = NULL \/ node.left.max < lo
    THEN FindStop(lo, hi, node.right)
    ELSE FindStop(lo, hi, node.left)

\* Where the descent of FindMinimum(node) stops: at the leftmost node.
RECURSIVE Leftmost(_)
Leftmost(node) == IF node.left = NULL THEN node ELSE Leftmost(node.left)

\* ---------------------------------------------------------------- Delete
\* Addresses: the nodes are numbered in preorder from `base`; 0 is nullptr.
RECURSIVE Label(_, _)
Label(t, base) ==
    IF t = NULL THEN NULL
    ELSE [t EXCEPT !.id = base,
                   !.left = Label(t.left, base + 1),
                   !.right = Label(t.right, base + 1 + Size(t.left))]

RECURSIVE Unlabel(_)
Unlabel(t) ==
    IF t = NULL THEN NULL
    ELSE [t EXCEPT !.id = 0, !.left = Unlabel(t.left), !.right = Unlabel(t.right)]

AddressOf(p) == IF p = NULL THEN 0 ELSE p.id

\* What released storage holds when it is read again: its old contents, or
\* one word repeated over the scalar fields.  The child pointers are kept.
Fills == {[keep |-> TRUE]} \cup {[keep |-> FALSE, word |-> g] : g \in Garbage}

Freed(n, fill) ==
    IF fill.keep THEN [n EXCEPT !.live = FALSE]
    ELSE [n EXCEPT !.lo = fill.word, !.hi = fill.word, !.value = fill.word,
                   !.max = fill.word, !.height = fill.word, !.live = FALSE]

\* ~Node on a node destroys the children it owns, then its own storage.
RECURSIVE Destroy(_, _)
Destroy(n, fill) ==
    IF n = NULL THEN NULL
    ELSE Freed([n EXCEPT !.left = Destroy(n.left, fill),
                         !.right = Destroy(n.right, fill)], fill)

\* `delete addr` issued by an owner outside the tree: the node at that
\* address (if the tree still holds it) is destroyed where it hangs.
RECURSIVE Release(_, _, _)
Release(t, addr, fill) ==
    IF t = NULL \/ addr = 0 THEN t
    ELSE IF t.id = addr THEN Destroy(t, fill)
    ELSE [t EXCEPT !.left = Release(t.left, addr, fill),
                   !.right = Release(t.right, addr, fill)]

\* The tail of the recursive Delete: Balance, height.  max is not recomputed.
DeleteFixup(node) ==
    LET b == Balance(node)
    IN [b EXCEPT !.height = CalcHeight(b)]

\* Delete(key, unique_ptr<Node>&): the outcomes of the call on the subtree a
\* slot owns, each the subtree owned afterwards (t) and whether some node had
\* two owning pointers during the call (shared).  No outcome: the call
\* dereferences nullptr.
RECURSIVE DeleteRec(_, _, _)
DeleteRec(key, node, fill) ==
    IF node = NULL THEN {[t |-> NULL, shared |-> FALSE]}
    ELSE IF node.lo < key
    THEN {[t |-> DeleteFixup([node EXCEPT !.right = o.t]), shared |-> o.shared] :
             o \in DeleteRec(key, node.right, fill)}
    ELSE IF key < node.lo
    THEN {[t |-> DeleteFixup([node EXCEPT !.left = o.t]), shared |-> o.shared] :
             o \in DeleteRec(key, node.left, fill)}
    ELSE IF node.height = 0
    THEN {[t |-> NULL, shared |-> FALSE]}
    ELSE IF node.right = NULL
    THEN IF node.left = NULL THEN {}
         ELSE {[t |-> DeleteFixup(node.left), shared |-> FALSE]}
    ELSE IF node.left = NULL
    THEN {[t |-> DeleteFixup(node.right), shared |-> FALSE]}
    ELSE UNION {
           LET \* auto min = *FindMinimum(right): a Node copy whose left and
               \* right unique_ptrs are built from the original's raw pointers
               n1 == [node EXCEPT !.lo = min.lo, !.hi = min.hi, !.value = min.value]
           IN { LET n2 == [n1 EXCEPT !.right = o.t]
                    \* end of the block: ~Node of min deletes right, then left
                    n3 == Release(Release(n2, AddressOf(min.right), fill),
                                  AddressOf(min.left), fill)
                IN [t |-> DeleteFixup(n3),
                    shared |-> o.shared \/ min.left # NULL \/ min.right # NULL] :
                o \in DeleteRec(n1.lo, n1.right, fill) } :
           min \in FindMinimum(node.right) }

\* The node the descent of Delete(key, node) stops at: the one with that low
\* endpoint on the search path, or NULL.
RECURSIVE Target(_, _)
Target(key, node) ==
    IF node = NULL THEN NULL
    ELSE IF node.lo < key THEN Target(key, node.right)
    ELSE IF key < node.lo THEN Target(key, node.left)
    ELSE node

\* The removal case Delete takes at the node it stops at, tested in the
\* order of the code: stored height 0, no right child, no left child.
RemovalCase(node) ==
    IF node = NULL THEN "absent"
    ELSE IF node.height = 0 THEN "leaf"
    ELSE IF node.right = NULL \/ node.left = NULL THEN "one child"
    ELSE "two children"

\* ------------------------------------------------------------ the state
VARIABLES
    tree,   \* m_pRoot
    call,   \* the last public call: its name, its arguments, and for Delete
            \* the number of nodes the tree had on entry
    ret,    \* what that call returned
    shared, \* during that call some node had two owning pointers
    stored  \* the low endpoints the caller has inserted and not deleted since

vars == <<tree, call, ret, shared, stored>>

NoCall == [op |-> "none"]
Void == [void |-> TRUE]

\* No owning pointer of the tree holds the address of released storage.  A
\* call made on a tree that does reads released storage from its first
\* comparison on; such calls are not followed.
NoDangling == \A n \in Nodes(tree) : n.live

Init ==
    /\ tree = NULL
    /\ call = NoCall
    /\ ret = Void
    /\ shared = FALSE
    /\ stored = {}

\* Insert(lo, hi, value) without the test of hi against lo.
InsertUnchecked(lo, hi, value) ==
    /\ NoDangling
    /\ call' = [op |-> "Insert", lo |-> lo, hi |-> hi, value |-> value]
    /\ \/ Size(tree) < MaxNodes
       \/ \E n \in Nodes(tree) : n.lo = lo
    /\ tree' = InsertRec(lo, hi, value, tree)
    /\ ret' = tree'
    /\ shared' = FALSE
    /\ stored' = stored \cup {lo}

\* Insert(TKey lo, TKey hi, TValue value): nullptr when hi < lo, otherwise
\* the root pointer after the recursive insert.
InsertCall(lo, hi, value) ==
    /\ call' = [op |-> "Insert", lo |-> lo, hi |-> hi, value |-> value]
    /\ IF hi < lo
       THEN /\ tree' = tree
            /\ ret' = NULL
            /\ stored' = stored
       ELSE /\ tree' = InsertRec(lo, hi, value, tree)
            /\ ret' = tree'
            /\ stored' = stored \cup {lo}
    /\ shared' = FALSE

\* Insert as explored: a fresh low endpoint only below MaxNodes nodes.
Insert(lo, hi, value) ==
    /\ NoDangling
    /\ \/ hi < lo
       \/ Size(tree) < MaxNodes
       \/ \E n \in Nodes(tree) : n.lo = lo
    /\ InsertCall(lo, hi, value)

\* Delete(TKey key), whatever the tree holds.
DeleteCall(key) ==
    \E fill \in Fills : \E o \in DeleteRec(key, Label(tree, 1), fill) :
        /\ call' = [op |-> "Delete", lo |-> key, size |-> Size(tree)]
        /\ tree' = Unlabel(o.t)
        /\ ret' = Void
        /\ shared' = o.shared
        /\ stored' = stored \ {key}

\* Delete(TKey key)
Delete(key) ==
    /\ NoDangling
    /\ DeleteCall(key)

\* Find(TKey lo, TKey hi) const
Find(lo, hi) ==
    /\ NoDangling
    /\ \E r \in FindPublic(lo, hi, tree) :
        /\ call' = [op |-> "Find", lo |-> lo, hi |-> hi]
        /\ ret' = r
        /\ UNCHANGED <<tree, shared, stored>>

Next ==
    \/ \E lo \in Keys, hi \in Keys, value \in Vals : Insert(lo, hi, value)
    \/ \E key \in Keys : Delete(key)
    \/ \E lo \in Keys, hi \in Keys : Find(lo, hi)

Spec == Init /\ [][Next]_vars

\* ------------------------------------- inserts, then deletes of all but one
\* Insert of a low endpoint that is not stored, before the first Delete.
InsertFresh(lo, hi, value) ==
    /\ call.op # "Delete"
    /\ lo \notin stored
    /\ hi >= lo
    /\ Insert(lo, hi, value)

\* Delete of a low endpoint that was inserted, while more than one is left.
\* The call is made on the tree as the previous Delete left it.
DeleteStored(key) ==
    /\ key \in stored
    /\ Cardinality(stored) > 1
    /\ DeleteCall(key)

NextDeleteAllButOne ==
    \/ \E lo \in Keys, hi \in Keys, value \in Vals : InsertFresh(lo, hi, value)
    \/ \E key \in Keys : DeleteStored(key)

SpecDeleteAllButOne == Init /\ [][NextDeleteAllButOne]_vars

\* ---------------------------------------------------------- inserts only
NextInsertOnly ==
    \E lo \in Keys, hi \in Keys, value \in Vals : Insert(lo, hi, value)

SpecInsertOnly == Init /\ [][NextInsertOnly]_vars

\* Insert of a low endpoint that is not stored, both endpoints non-negative.
InsertNonNeg(lo, hi, value) ==
    /\ lo \notin stored
    /\ hi >= lo
    /\ InsertCall(lo, hi, value)

NextInsertNonNeg ==
    \E lo \in NonNegKeys, hi \in NonNegKeys, value \in Vals :
        InsertNonNeg(lo, hi, value)

SpecInsertNonNeg == Init /\ [][NextInsertNonNeg]_vars

\* ------------------------------------------------------- Balance alone
\* The AVL trees of height h whose stored heights are right (keys not set).
RECURSIVE AVLTrees(_)
AVLTrees(h) ==
    IF h < 0 - 1 THEN {}
    ELSE IF h = 0 - 1 THEN {NULL}
    ELSE {[NewNode(0, 0, 1) EXCEPT !.height = h, !.left = p[1], !.right = p[2]] :
            p \in (AVLTrees(h - 1) \X AVLTrees(h - 1))
                   \cup (AVLTrees(h - 1) \X AVLTrees(h - 2))
                   \cup (AVLTrees(h - 2) \X AVLTrees(h - 1))}

\* The tree with lo = hi = the node's in-order position counted from base,
\* and max set from the children as CalcMax does.
RECURSIVE Keyed(_, _)
Keyed(t, base) ==
    IF t = NULL THEN NULL
    ELSE LET k == base + Size(t.left)
         IN CalcMax([t EXCEPT !.lo = k, !.hi = k,
                              !.left = Keyed(t.left, base),
                              !.right = Keyed(t.right, k + 1)])

\* A node over two AVL subtrees whose heights differ by at most 2.
BalanceInputs ==
    LET heights == (0 - 1) .. MaxSubtreeHeight
    IN UNION { { Keyed([NewNode(0, 0, 1) EXCEPT !.height = 1 + Max2(h[1], h[2]),
                                                !.left = l, !.right = r], 1) :
                   l \in AVLTrees(h[1]), r \in AVLTrees(h[2]) } :
               h \in { x \in heights \X heights : Abs(x[1] - x[2]) <= 2 } }

InitBalance ==
    /\ tree \in BalanceInputs
    /\ call = NoCall
    /\ ret = Void
    /\ shared = FALSE
    /\ stored = {}

\* Balance(m_pRoot), once.
BalanceCall ==
    /\ call = NoCall
    /\ call' = [op |-> "Balance", node |-> tree]
    /\ tree' = Balance(tree)
    /\ ret' = Void
    /\ UNCHANGED <<shared, stored>>

SpecBalance == InitBalance /\ [][BalanceCall]_vars

\* ---------------------------------------------------------- the scenario
\* Five inserts in this order into the empty tree; the payloads a..e are
\* numbered 1..5.
Scenario ==
    << <<1, 3, 1>>, <<2, 6, 2>>, <<8, 9, 3>>, <<15, 18, 4>>, <<7, 10, 5>> >>

\* The endpoints a query is made of: 1 .. 18.
ScenarioPoints == Scenario[1][1] .. Scenario[4][2]

ScenarioInsert ==
    /\ Cardinality(stored) < Len(Scenario)
    /\ LET e == Scenario[Cardinality(stored) + 1]
       IN InsertCall(e[1], e[2], e[3])

\* Any query on the tree of the five intervals.
ScenarioFind(lo, hi) ==
    /\ Cardinality(stored) = Len(Scenario)
    /\ Find(lo, hi)

NextScenario ==
    \/ ScenarioInsert
    \/ \E lo \in ScenarioPoints, hi \in ScenarioPoints : ScenarioFind(lo, hi)

SpecScenario == Init /\ [][NextScenario]_vars

\* ---------------------------------------------------- what the claims use
RECURSIVE TrueHeight(_)
\* The height of the tree as it is linked: -1 for an absent subtree.
TrueHeight(t) ==
    IF t = NULL THEN 0 - 1
    ELSE 1 + Max2(TrueHeight(t.left), TrueHeight(t.right))

SetMax(S) == CHOOSE m \in S : \A x \in S : x <= m

\* The largest hi stored in the subtree of n.
SubtreeMaxHi(n) == SetMax({m.hi : m \in Nodes(n)})

Has(t, lo) == \E n \in Nodes(t) : n.lo = lo

\* The stored (lo, hi, value) entries: those of the nodes that still exist.
Entries(t) == {<<n.lo, n.hi, n.value>> : n \in {m \in Nodes(t) : m.live}}

Overlaps(lo, hi, n) == hi > n.lo /\ lo < n.hi

\* The (lo, hi, value) entries of a tree, left to right.
RECURSIVE InOrder(_)
InOrder(t) ==
    IF t = NULL THEN << >>
    ELSE InOrder(t.left) \o << <<t.lo, t.hi, t.value>> >> \o InOrder(t.right)

\* Every node's subtrees, as linked, differ in height by at most 1.
IsAVL(t) == \A n \in Nodes(t) : Abs(TrueHeight(n.left) - TrueHeight(n.right)) <= 1

\* ------------------------------------------------------------ the claims

\* C1: after any sequence of Insert and Delete calls every node's left and
\* right subtree heights, measured on the tree as linked, differ by at most 1.
C1_AVLBalanced ==
    \A n \in Nodes(tree) : Abs(TrueHeight(n.left) - TrueHeight(n.right)) <= 1

\* C2: after any sequence of Insert and Delete calls every lo in a node's
\* left subtree is smaller than the node's lo and every lo in its right
\* subtree is greater.
C2_StrictBST ==
    \A n \in Nodes(tree) :
        /\ \A m \in Nodes(n.left) : m.lo < n.lo
        /\ \A m \in Nodes(n.right) : m.lo > n.lo

\* C3: after any sequence of Insert and Delete calls every node's stored max
\* is the maximum hi of its subtree.
C3_MaxIsSubtreeMax ==
    \A n \in Nodes(tree) : n.max = SubtreeMaxHi(n)

\* C4: a Find whose query overlaps some stored interval returns a node.
C4_FindComplete ==
    (call.op = "Find" /\ \E n \in Nodes(tree) : Overlaps(call.lo, call.hi, n))
        => ret # NULL

\* C5: a node returned by Find is stored in the tree and its interval
\* overlaps the query with both boundaries exclusive.
C5_FindSound ==
    (call.op = "Find" /\ ret # NULL)
        => /\ ret \in Nodes(tree)
           /\ ret.live
           /\ call.hi > ret.lo
           /\ call.lo < ret.hi

\* C6: Delete(lo) on a tree holding lo removes the entry with that lo and
\* leaves every other entry stored as it was, adding none.
C6_DeleteRemovesExactlyOne ==
    [][(call'.op = "Delete" /\ Has(tree, call'.lo))
          => Entries(tree') = {e \in Entries(tree) : e[1] # call'.lo}]_vars

\* C7: Insert with hi < lo returns null and leaves the whole tree as it was;
\* Insert with hi >= lo (hi = lo included) returns a node.
C7_InsertRejectsInverted ==
    [][call'.op = "Insert"
          => IF call'.hi < call'.lo
             THEN ret' = NULL /\ tree' = tree
             ELSE ret' # NULL]_vars

\* C7 witness: an inverted interval was rejected on a tree of three nodes.
C7_Witness ==
    /\ call.op = "Insert"
    /\ call.hi < call.lo
    /\ ret = NULL
    /\ Size(tree) >= 3

\* C8 as stated: after Insert(lo, hi, v) with hi >= lo exactly one node has
\* that lo, and it stores hi and v, also when lo was stored before with
\* another hi.
C8_UpdateReplacesInterval ==
    (call.op = "Insert" /\ call.hi >= call.lo)
        => /\ Cardinality({n \in Nodes(tree) : n.lo = call.lo}) = 1
           /\ \A n \in Nodes(tree) :
                 n.lo = call.lo => n.hi = call.hi /\ n.value = call.value

\* C8 amended: Insert(lo, hi2, B) on a tree that stores lo leaves exactly one
\* node with that lo; it has the value B and keeps the hi and the max it had.
C8_UpdateReplacesValueOnly ==
    [][(call'.op = "Insert" /\ call'.hi >= call'.lo /\ Has(tree, call'.lo))
          => /\ Cardinality({n \in Nodes(tree') : n.lo = call'.lo}) = 1
             /\ \A n \in Nodes(tree') : \A o \in Nodes(tree) :
                   (n.lo = call'.lo /\ o.lo = call'.lo)
                       => /\ n.value = call'.value
                          /\ n.hi = o.hi
                          /\ n.max = o.max]_vars

\* C8 witness: an Insert of a stored lo with another hi and another value has
\* returned; the node is below the root.
C8_Witness ==
    /\ call.op = "Insert"
    /\ call.hi >= call.lo
    /\ tree # NULL
    /\ tree.lo # call.lo
    /\ \E n \in Nodes(tree) :
          n.lo = call.lo /\ n.hi # call.hi /\ n.value = call.value

\* C9: every node reachable from the root exists, and during no call did a
\* node have two owning pointers.
C9_SingleLiveOwner ==
    /\ \A n \in Nodes(tree) : n.live
    /\ ~shared

\* C10: Delete(lo) on a tree (empty or not) holding no node with that lo
\* completes and leaves shape, intervals, values, heights and max as they were.
C10_DeleteAbsentNoOp ==
    /\ [](\A key \in Keys :
            (NoDangling /\ ~Has(tree, key))
                => \A fill \in Fills : DeleteRec(key, Label(tree, 1), fill) # {})
    /\ [][(call'.op = "Delete" /\ ~Has(tree, call'.lo)) => tree' = tree]_vars

\* C10 witness: a Delete of a lo that is not stored returned on a tree of
\* three nodes, two levels deep.
C10_Witness ==
    /\ call.op = "Delete"
    /\ call.size = 3
    /\ Size(tree) = 3
    /\ ~Has(tree, call.lo)

\* C11: an Insert(lo, hi, v) with hi >= lo that is immediately followed by
\* Find(lo, hi) makes that Find return a node whose interval overlaps the
\* query and whose value is v.
C11_RoundTrip ==
    [][(/\ call.op = "Insert"
        /\ call.hi >= call.lo
        /\ call'.op = "Find"
        /\ call'.lo = call.lo
        /\ call'.hi = call.hi)
          => /\ ret' # NULL
             /\ Overlaps(call'.lo, call'.hi, ret')
             /\ ret'.value = call.value]_vars

\* C12: after every completed Insert or Delete every node's stored height is
\* the height of its subtree as linked (0 exactly for a node without
\* children, an absent child counting as -1).
C12_StoredHeightIsTrueHeight ==
    \A n \in Nodes(tree) : n.height = TrueHeight(n)

\* C13: after inserts of distinct low endpoints and deletes of all but one
\* of them, in any order, the tree is a single root that holds the remaining
\* low endpoint, has stored height 0 and has no children.
C13_SingleRootRemains ==
    (call.op = "Delete" /\ Cardinality(stored) = 1)
        => /\ tree # NULL
           /\ tree.live
           /\ tree.lo \in stored
           /\ tree.height = 0
           /\ tree.left = NULL
           /\ tree.right = NULL

\* C14: after the five inserts of the scenario the tree is balanced with a
\* root height of at most 3, and Find(11, 13) and Find(6, 7) on it return
\* 'not found'.
C14_Scenario ==
    Cardinality(stored) = Len(Scenario)
        => /\ \A n \in Nodes(tree) :
                 Abs(TrueHeight(n.left) - TrueHeight(n.right)) <= 1
           /\ TrueHeight(tree) <= 3
           /\ tree.height <= 3
           /\ (call.op = "Find" /\ call.lo = 11 /\ call.hi = 13) => ret = NULL
           /\ (call.op = "Find" /\ call.lo = 6 /\ call.hi = 7) => ret = NULL

\* C15: Balance on a node over two AVL subtrees with right heights leaves the
\* subtree as it is when the node's balance factor is in -1 .. 1; when it is
\* -2 or 2 the result has every node's subtree heights within 1 of each
\* other and the same left-to-right sequence of entries.
C15_BalanceRestoresAVL ==
    [][call'.op = "Balance"
          => LET balance == TrueHeight(tree.left) - TrueHeight(tree.right)
             IN /\ balance \in (0 - 1) .. 1 => tree' = tree
                /\ Abs(balance) = 2
                      => /\ IsAVL(tree')
                         /\ InOrder(tree') = InOrder(tree)]_vars

\* C15 witness: Balance has returned on a node whose right subtree was two
\* higher than its left and leaned left (the right-left case), and another
\* node is the root now.
C15_Witness ==
    /\ call.op = "Balance"
    /\ GetBalance(call.node) = 0 - 2
    /\ GetBalance(call.node.right) = 1
    /\ call.node.left # NULL
    /\ tree.lo = call.node.right.left.lo

\* C16: when Delete stops at a node with both children, the entry that node
\* receives is the one with the least lo of its right subtree, the recursive
\* Delete of that lo in the right subtree stops at a node in the leaf or the
\* one-child case, and the call removes exactly one node.
C16_TwoChildDeletion ==
    \A key \in Keys :
        LET target == Target(key, tree)
        IN (NoDangling /\ RemovalCase(target) = "two children")
             => /\ \A min \in FindMinimum(target.right) :
                      /\ \A m \in Nodes(target.right) : min.lo <= m.lo
                      /\ RemovalCase(Target(min.lo, target.right))
                             \in {"leaf", "one child"}
                /\ \A fill \in Fills :
                      \A o \in DeleteRec(key, Label(tree, 1), fill) :
                         /\ Size(o.t) = Size(tree) - 1
                         /\ \A n \in Nodes(o.t) : n.live
                         /\ ~o.shared

\* C17: in a tree built from empty by Inserts of distinct low endpoints with
\* non-negative endpoints, after each Insert every node (those on the path
\* to the inserted node and those moved by a rotation among them) has max
\* equal to the largest hi of its subtree and height equal to its true height.
C17_InsertRefreshesMaxAndHeight ==
    \A n \in Nodes(tree) :
        /\ n.max = SubtreeMaxHi(n)
        /\ n.height = TrueHeight(n)

\* C17 witness: in a tree of five nodes the node just inserted is the right
\* child of the root (a double rotation below the root has lifted it there),
\* and the root, where no rotation occurred, has its max from that node.
C17_Witness ==
    /\ call.op = "Insert"
    /\ Size(tree) = 5
    /\ tree.right # NULL
    /\ tree.right.lo = call.lo
    /\ tree.right.left # NULL
    /\ tree.right.right # NULL
    /\ tree.max = call.hi
    /\ tree.max > tree.hi

\* C18: after any sequence of Inserts, negative endpoints included, no node's
\* stored max is larger than the largest hi of its subtree, and none is
\* smaller: the value standing for an absent child is below every hi.
C18_AbsentChildBelowEveryHi ==
    \A n \in Nodes(tree) :
        /\ n.max <= SubtreeMaxHi(n)
        /\ n.max >= SubtreeMaxHi(n)

\* C19: the public Find returns exactly the node (or 'not found') at which
\* its recursive descent stopped, also below the root, and FindMinimum on
\* any subtree returns that subtree's leftmost node.
C19_ResultsPropagate ==
    /\ call.op = "Find" => ret = FindStop(call.lo, call.hi, tree)
    /\ NoDangling => \A n \in Nodes(tree) : FindMinimum(n) = {Leftmost(n)}
====
